---------------------------- MODULE Spec2Model ----------------------------
(* The AI content generation-and-caching pipeline of core/views.py:       *)
(* career plans, internships, enrollments, quizzes, job listings, travel  *)
(* plans and local recommendations, over the relational store and the     *)
(* process-wide cache.                                                    *)
(*                                                                        *)
(* Text is a sequence of tokens.  A character string (a title, a city, a  *)
(* cache key) is a sequence of one-character strings.  A generation       *)
(* response is a sequence of the tokens                                   *)
(*   "FJ"  the fence ```json        "F"  the fence ```                    *)
(*   "["  "]"  the array brackets   "p"  a run of prose                   *)
(*   "A" "B"  JSON objects          "S"  a JSON string                    *)
(*   "5"  the JSON number 5                                               *)
(* with the separating commas left out.                                   *)
EXTENDS Integers, Sequences, FiniteSets, TLC

\* ------------------------------------------------------------ bounds
MaxInternId == 1
MaxEnrollId == 2
MaxPlanId == 2
MaxJobId == 3
MaxVibeId == 3
MaxTicks == 2

\* -------------------------------------------------- program constants
CacheTimeout == 86400
QuizMinQuestions == 10
PassMark == 60
DefaultScore == 80
HttpOk == 200
HttpBadRequest == 400
HttpNotFound == 404
HttpServerError == 500

\* The clock advances in steps of half a cache lifetime.
TickStep == CacheTimeout \div 2

Users == {"u1", "u2"}

\* Job search has a third caller, whose profile holds an occupation only.
JobUsers == Users \cup {"u3"}
\* u4 lives where u1 lives, letter for letter
VibeUsers == Users \cup {"u4"}

\* ------------------------------------------------------------ strings
UpperLetters ==
    <<"A", "B", "C", "D", "E", "F", "G", "H", "I", "J", "K", "L", "M", "N", "O",
      "P", "Q", "R", "S", "T", "U", "V", "W", "X", "Y", "Z">>
LowerLetters ==
    <<"a", "b", "c", "d", "e", "f", "g", "h", "i", "j", "k", "l", "m", "n", "o",
      "p", "q", "r", "s", "t", "u", "v", "w", "x", "y", "z">>
Digits == {"0", "1", "2", "3", "4", "5", "6", "7", "8", "9"}

UpperCase == {UpperLetters[k] : k \in DOMAIN UpperLetters}

keep_case(s) == s

\* str.lower()
lower(s) ==
    [i \in DOMAIN s |->
        IF s[i] \in UpperCase
        THEN LowerLetters[CHOOSE k \in DOMAIN UpperLetters :
                              UpperLetters[k] = s[i]]
        ELSE s[i]]

RECURSIVE lstrip(_)
lstrip(s) == IF s # <<>> /\ Head(s) = " " THEN lstrip(Tail(s)) ELSE s

RECURSIVE rstrip(_)
rstrip(s) ==
    IF s # <<>> /\ s[Len(s)] = " " THEN rstrip(SubSeq(s, 1, Len(s) - 1)) ELSE s

keep_spaces(s) == s

\* str.strip()
strip(s) == rstrip(lstrip(s))

\* s.replace(' ', '_')
replace_space(s) == [i \in DOMAIN s |-> IF s[i] = " " THEN "_" ELSE s[i]]

AlnumChars ==
    UpperCase \cup {LowerLetters[k] : k \in DOMAIN LowerLetters} \cup Digits

\* re.sub(r"[^a-zA-Z0-9]", "_", title.lower())
safe_title(title) ==
    [i \in DOMAIN title |->
        IF lower(title)[i] \in AlnumChars THEN lower(title)[i] ELSE "_"]

quiz_cache_key(title) == <<"quiz_shared_">> \o safe_title(title)

jobs_cache_key(query, location) ==
    <<"jobs_v2_">> \o lower(replace_space(query)) \o <<"_">>
        \o lower(replace_space(location))

\* --------------------------------------------------------- JSON values
\* A parsed value: a list of items, or a number.  NoneValue is Python's None.
ListValue(items) == [t |-> "list", items |-> items, n |-> 0]
NumberValue(k) == [t |-> "number", items |-> <<>>, n |-> k]
NoneValue == [t |-> "none", items |-> <<>>, n |-> 0]

\* Python truthiness: None, 0 and the empty list are falsy.
Truthy(v) ==
    CASE v.t = "list" -> v.items # <<>>
      [] v.t = "number" -> v.n # 0
      [] OTHER -> FALSE

TitleAb == <<"A", "b">>
TitleDefault ==
    <<"E", "x", "c", "i", "t", "i", "n", "g", " ",
      "I", "n", "t", "e", "r", "n", "s", "h", "i", "p">>

NoFields ==
    [title |-> <<>>, question |-> 0, options |-> 0, correct |-> 0,
     min_days |-> 0, max_days |-> 0, description |-> <<>>]

\* An item of a parsed list: a JSON object with the keys in `has`, or a
\* JSON string (kind "str").
StringItem == [kind |-> "str", has |-> {}, val |-> NoFields]
ObjectA ==
    [kind |-> "obj",
     has |-> {"title", "question", "options", "correct", "questions"},
     val |-> [NoFields EXCEPT !.title = TitleAb, !.question = 1,
                             !.options = 4, !.correct = 1]]
ObjectB == [kind |-> "obj", has |-> {}, val |-> NoFields]
\* ObjectA with its title in the other case
ObjectC == [ObjectA EXCEPT !.val.title = <<"a", "B">>]

\* An internship that names its days and its description
ObjectD ==
    [kind |-> "obj",
     has |-> {"title", "min_days", "max_days", "description"},
     val |-> [NoFields EXCEPT !.title = <<"D">>, !.min_days = 14,
                             !.max_days = 21, !.description = <<"d">>]]

ItemTokens == {"A", "B", "C", "D", "S"}

ItemOf(tok) ==
    CASE tok = "A" -> ObjectA
      [] tok = "B" -> ObjectB
      [] tok = "C" -> ObjectC
      [] tok = "D" -> ObjectD
      [] OTHER -> StringItem

\* dict.get(key, default) on an object item
Get(q, key, default) == IF key \in q.has THEN q.val[key] ELSE default

\* ------------------------------------------------------------- parsing
ParseError == [t |-> "error", items |-> <<>>, n |-> 0]

\* json.loads: a bracketed run of items is a list, the lone token "5" is a
\* number, anything else raises.
json_loads(text) ==
    IF /\ Len(text) >= 2
       /\ text[1] = "["
       /\ text[Len(text)] = "]"
       /\ \A i \in 2..(Len(text) - 1) : text[i] \in ItemTokens
    THEN ListValue([i \in 1..(Len(text) - 2) |-> ItemOf(text[i + 1])])
    ELSE IF text = <<"5">> THEN NumberValue(5)
    ELSE ParseError

Positions(text, toks) == {i \in DOMAIN text : text[i] \in toks}

Min(S) == CHOOSE x \in S : \A y \in S : x <= y
Max(S) == CHOOSE x \in S : \A y \in S : y <= x

\* text.split(fence)[1].split("```")[0]: what follows the first `fence`, up
\* to the next backtick fence (either kind) or the end of the text.
AfterFence(text, fence) ==
    LET start == Min(Positions(text, fence))
        rest == SubSeq(text, start + 1, Len(text))
        close == Positions(rest, {"F", "FJ"})
    IN  IF close = {} THEN rest ELSE SubSeq(rest, 1, Min(close) - 1)

\* if "```json" in text: ... elif "```" in text: ...
strip_fences(text) ==
    IF Positions(text, {"FJ"}) # {} THEN AfterFence(text, {"FJ"})
    ELSE IF Positions(text, {"F"}) # {} THEN AfterFence(text, {"F"})
    ELSE text

\* re.search(r"\[.*\]", text, re.DOTALL): greedy, from the first "[" to the
\* last "]"; <<>> when there is no match.
HasBracketMatch(text) ==
    /\ Positions(text, {"["}) # {}
    /\ Positions(text, {"]"}) # {}
    /\ Min(Positions(text, {"["})) < Max(Positions(text, {"]"}))

bracket_match(text) ==
    IF HasBracketMatch(text)
    THEN SubSeq(text, Min(Positions(text, {"["})), Max(Positions(text, {"]"})))
    ELSE <<>>

\* text.replace("```json", "").replace("```", "")
remove_fences(text) == SelectSeq(text, LAMBDA tok : tok \notin {"F", "FJ"})

\* generate_internships, generate_quiz: bracket search, else drop the fences
parse_array_or_cleaned(text) ==
    IF HasBracketMatch(text) THEN json_loads(bracket_match(text))
    ELSE json_loads(remove_fences(text))

\* scrape_jobs, local_discounts_and_events: fences first, then bracket search
parse_fenced_array(text) ==
    LET cleaned == strip_fences(text)
    IN  IF HasBracketMatch(cleaned) THEN json_loads(bracket_match(cleaned))
        ELSE json_loads(cleaned)


\* ------------------------------------------------ generation service
TextOneObject == <<"[", "A", "]">>
TextMixed == <<"[", "A", "S", "B", "]">>
TextObjectD == <<"[", "D", "]">>
TextEmptyArray == <<"[", "]">>
TextProse == <<"p", "[", "A", "]", "p">>
TextFenced == <<"p", "FJ", "[", "B", "]", "F", "p">>
TextGarbage == <<"p">>
TextNumber == <<"5">>
TextBadArray == <<"[", "p", "]">>
TextQuiz == <<"[", "A", "A", "A", "A", "A", "A", "A", "A", "A", "A", "]">>

AiTexts ==
    {TextOneObject, TextMixed, TextEmptyArray, TextProse, TextFenced,
     TextGarbage, TextNumber, TextBadArray, TextQuiz}

\* What one call of the generation service does: it raises, or returns text.
Failure == [ok |-> FALSE, text |-> <<>>]
Outcomes == {Failure} \cup {[ok |-> TRUE, text |-> t] : t \in AiTexts}

GradeTexts ==
    {<<"SCORE:", "85", "FEEDBACK:">>, <<"SCORE:", "p">>, <<"SCORE:", "250">>}
GradeOutcomes == {Failure} \cup {[ok |-> TRUE, text |-> t] : t \in GradeTexts}

NumberTokens == {"85", "250"}
NumberOf(tok) == IF tok = "85" THEN 85 ELSE 250

\* re.search(r"SCORE:\s*(\d+)", ai_resp), and the default of 80
ScoreOf(text) ==
    LET hits == {i \in DOMAIN text :
                    /\ text[i] = "SCORE:"
                    /\ i < Len(text)
                    /\ text[i + 1] \in NumberTokens}
    IN  IF hits = {} THEN DefaultScore ELSE NumberOf(text[Min(hits) + 1])

\* -------------------------------------------------------------- state
VARIABLES
    client_ready,    \* gemini_client is not None
    accept_language, \* the Accept-Language header the client sends
    internships,     \* Internship rows
    enrollments,     \* Enrollment rows
    nextInternId,    \* the Internship table's next autoincrement id
    nextEnrollId,    \* the Enrollment table's next autoincrement id
    careerPlans,     \* CareerPlan rows
    nextPlanId,
    scrapedJobs,     \* ScrapedJob rows
    nextJobId,
    localVibes,      \* LocalVibe rows
    nextVibeId,
    cache,           \* django.core.cache: entries [key, value, expires]
    now,             \* seconds since start
    jobsReq,         \* the scrape_jobs request each user has in flight
    vibesReq,        \* the local_discounts_and_events request in flight
    quizReq,         \* the generate_quiz request each user has in flight
    resp             \* the last response sent

vars ==
    <<client_ready, accept_language, internships, enrollments, nextInternId,
      nextEnrollId, careerPlans, nextPlanId, scrapedJobs, nextJobId, localVibes, nextVibeId,
      cache, now, jobsReq, vibesReq, quizReq, resp>>

internVars == <<internships, enrollments, nextInternId, nextEnrollId>>
planVars == <<careerPlans, nextPlanId>>
jobVars == <<scrapedJobs, nextJobId, jobsReq>>
vibeVars == <<localVibes, nextVibeId, vibesReq>>

NoScore == -1

\* A response: the endpoint, the HTTP status, the keys of the
\* payload, and the content of its content field: a parsed value (`content`),
\* raw text (`text`), the quiz projection (`questions`).  `source` says where
\* the content came from, `gen_calls` how many generation calls the request
\* made and `gen_failed` whether its try block raised; `prompt_suffix` is what
\* the view appended to its prompt for the caller's locale: no view calls
\* get_lang_instruction, so it is empty.
BaseResponse(op, status, keys) ==
    [op |-> op, status |-> status, keys |-> keys,
     content |-> NoneValue, text |-> <<>>, questions |-> <<>>,
     source |-> "none", gen_calls |-> 0, gen_failed |-> FALSE,
     score |-> NoScore, passed |-> FALSE,
     plan_id |-> 0, prompt_suffix |-> <<>>]

ErrorResponse(op, status, calls, failed) ==
    [BaseResponse(op, status, {"error"}) EXCEPT
        !.gen_calls = calls, !.gen_failed = failed]

\* An exception nothing catches: the framework's bare 500 page.
Crash(op, calls) ==
    [BaseResponse(op, HttpServerError, {}) EXCEPT !.gen_calls = calls]

\* Responses are recorded in `resp` unless the run starts with it set to
\* Unobserved, which it then keeps: a specification whose properties speak
\* of the store alone starts so.
Unobserved == BaseResponse("unobserved", 0, {})
Send(r) == IF resp = Unobserved THEN Unobserved ELSE r

\* No Internship row.
NoInternship ==
    [id |-> 0, user |-> "", title |-> <<>>, min_days |-> 0, max_days |-> 0,
     description |-> <<>>, interview_questions |-> NoneValue]

InitStore ==
    /\ client_ready \in BOOLEAN
    /\ accept_language = "en"
    /\ internships = {}
    /\ enrollments = {}
    /\ nextInternId = 1
    /\ nextEnrollId = 1
    /\ careerPlans = {}
    /\ nextPlanId = 1
    /\ scrapedJobs = {}
    /\ nextJobId = 1
    /\ localVibes = {}
    /\ nextVibeId = 1
    /\ cache = {}
    /\ now = 0
    /\ jobsReq = [u \in JobUsers |-> [pc |-> "idle", query |-> <<>>,
                                    location |-> <<>>]]
    /\ quizReq = [u \in Users |-> [pc |-> "idle", internship |-> NoInternship]]
    /\ vibesReq = [u \in VibeUsers |->
                     [pc |-> "idle", refresh |-> FALSE, events |-> NoneValue,
                      start_ids |-> {}, start_offers |-> NoneValue,
                      read |-> FALSE]]

Init == InitStore /\ resp = BaseResponse("none", 0, {})
InitUnobserved == InitStore /\ resp = Unobserved

\* The locales a client may send; "en" is what the header defaults to.
Languages == {"en", "tr", "de"}

TurkishInstruction == <<"IMPORTANT: Respond ENTIRELY in Turkish">>

\* get_lang_instruction(request): the prompt suffix for the header
get_lang_instruction(lang) == IF lang = "tr" THEN TurkishInstruction ELSE <<>>

\* The client changes the Accept-Language header of its requests.
SetLanguage(lang) ==
    /\ accept_language' = lang
    /\ UNCHANGED <<client_ready, quizReq, internVars, planVars, jobVars, vibeVars,
                   cache, now, resp>>

\* ai_generate(prompt): raises when the client was never created
ai_generate(o) == IF client_ready THEN o ELSE Failure

\* ------------------------------------------------------ shared cache
\* cache.get(key): the stored value, None when absent or expired
cache_get(key) ==
    LET live == {c \in cache : c.key = key /\ now < c.expires}
    IN  IF live = {} THEN NoneValue ELSE (CHOOSE c \in live : TRUE).value

\* cache.add: only an absent key is written
cache_add(key, value) ==
    IF \E c \in cache : c.key = key /\ now < c.expires THEN cache
    ELSE {c \in cache : c.key # key}
           \cup {[key |-> key, value |-> value, expires |-> now + CacheTimeout]}

\* cache.set(key, value, timeout=86400)
cache_set(key, value) ==
    {c \in cache : c.key # key}
        \cup {[key |-> key, value |-> value, expires |-> now + CacheTimeout]}

\* Time passes.
Tick ==
    /\ now + TickStep <= MaxTicks * TickStep
    /\ now' = now + TickStep
    /\ UNCHANGED <<client_ready, accept_language, quizReq, internVars, planVars,
                   jobVars, vibeVars,
                   cache, resp>>

\* -------------------------------------------------------- internships
otherThanIntern ==
    <<client_ready, accept_language, quizReq, planVars, jobVars, vibeVars, now>>

InternshipExists(id) == \E i \in internships : i.id = id
InternshipById(id) == CHOOSE i \in internships : i.id = id

\* Enrollment.objects.filter(user=user).values_list("internship_id")
EnrolledIds(u) == {e.internship : e \in {x \in enrollments : x.user = u}}

\* Internship.objects.filter(user=user).exclude(id__in=enrolled_ids)
Unenrolled(u) ==
    {i \in internships : i.user = u /\ i.id \notin EnrolledIds(u)}

\* The Enrollment rows that survive the deletion of the internships `gone`
\* (Enrollment.internship is on_delete=CASCADE).
EnrollmentsAfterDelete(gone) ==
    {e \in enrollments : e.internship \notin {i.id : i \in gone}}

\* a row per entry, strings included
all_items(data) == data.items

\* for item in internships_data: if isinstance(item, str): continue
ObjectItems(data) == SelectSeq(data.items, LAMBDA it : it.kind = "obj")

ThreeQuestionStrings == ListValue(<<StringItem, StringItem, StringItem>>)

\* interview_questions=item.get("questions", [])
InitialQuestions(item) ==
    IF "questions" \in item.has THEN ThreeQuestionStrings ELSE ListValue(<<>>)

NewInternship(u, id, item) ==
    [id |-> id, user |-> u,
     title |-> Get(item, "title", TitleDefault),
     min_days |-> Get(item, "min_days", 7),
     max_days |-> Get(item, "max_days", 30),
     description |-> Get(item, "description", <<>>),
     interview_questions |-> InitialQuestions(item)]

GenerateInternships(u, o) ==
    /\ UNCHANGED <<otherThanIntern, cache>>
    /\ IF ~client_ready
       THEN /\ resp' = Send(ErrorResponse("generate_internships", HttpServerError, 0, FALSE))
            /\ UNCHANGED internVars
       ELSE LET gone == Unenrolled(u)
                r == ai_generate(o)
                data == IF r.ok THEN parse_array_or_cleaned(r.text)
                        ELSE ParseError
                objs == ObjectItems(data)
            IN  /\ enrollments' = EnrollmentsAfterDelete(gone)
                /\ nextEnrollId' = nextEnrollId
                /\ IF data.t = "list"
                   THEN /\ nextInternId + Len(objs) - 1 <= MaxInternId
                        /\ internships' =
                             (internships \ gone) \cup
                             {NewInternship(u, nextInternId + k - 1, objs[k]) :
                                 k \in 1..Len(objs)}
                        /\ nextInternId' = nextInternId + Len(objs)
                        /\ resp' = Send([BaseResponse("generate_internships", HttpOk, {"status", "data"})
                                    EXCEPT !.gen_calls = 1, !.source = "ai"])
                   ELSE /\ internships' = internships \ gone
                        /\ nextInternId' = nextInternId
                        /\ resp' = Send(ErrorResponse("generate_internships", HttpServerError, 1,
                                                 data.t = "error"))

\* ---------------------------------------------------------- enrollments
Matching(u, id) == {e \in enrollments : e.user = u /\ e.internship = id}

NewEnrollment(u, id) ==
    [id |-> nextEnrollId, user |-> u, internship |-> id,
     status |-> "Enrolled", ai_score |-> NoScore]

get_or_create_always_creates(u, id) ==
    [outcome |-> "created", row |-> NewEnrollment(u, id)]

\* Enrollment.objects.get_or_create(user=user, internship=internship): the
\* row found, a new row with the model's default status, or
\* MultipleObjectsReturned.
get_or_create(u, id) ==
    IF Matching(u, id) = {}
    THEN [outcome |-> "created", row |-> NewEnrollment(u, id)]
    ELSE IF Cardinality(Matching(u, id)) = 1
    THEN [outcome |-> "found", row |-> CHOOSE e \in Matching(u, id) : TRUE]
    ELSE [outcome |-> "multiple", row |-> NewEnrollment(u, id)]

\* The table after get_or_create returned `g` and `row` was saved.
SaveEnrollment(g, row) ==
    /\ g.outcome = "created" => nextEnrollId <= MaxEnrollId
    /\ enrollments' = (enrollments \ {g.row}) \cup {row}
    /\ nextEnrollId' =
         IF g.outcome = "created" THEN nextEnrollId + 1 ELSE nextEnrollId
    /\ UNCHANGED <<internships, nextInternId>>

EnrollInternship(u, id) ==
    /\ UNCHANGED <<otherThanIntern, cache>>
    /\ IF ~InternshipExists(id)
       THEN /\ resp' = Send(ErrorResponse("enroll_internship", HttpNotFound,
                                     0, FALSE))
            /\ UNCHANGED internVars
       ELSE LET g == get_or_create(u, id)
            IN  IF g.outcome = "multiple"
                THEN /\ resp' = Send(Crash("enroll_internship", 0))
                     /\ UNCHANGED internVars
                ELSE /\ SaveEnrollment(g, g.row)
                     /\ resp' = Send(BaseResponse("enroll_internship", HttpOk,
                                             {"status", "enrollment_id"}))

GradeInternship(u, id, o) ==
    /\ UNCHANGED <<otherThanIntern, cache>>
    /\ IF ~InternshipExists(id)
       THEN /\ resp' = Send(ErrorResponse("grade_internship", HttpNotFound,
                                     0, FALSE))
            /\ UNCHANGED internVars
       ELSE LET r == ai_generate(o)
                g == get_or_create(u, id)
            IN  IF ~r.ok
                THEN /\ resp' = Send(ErrorResponse("grade_internship", HttpServerError, 1, TRUE))
                     /\ UNCHANGED internVars
                ELSE IF g.outcome = "multiple"
                THEN /\ resp' = Send(ErrorResponse("grade_internship", HttpServerError, 1, FALSE))
                     /\ UNCHANGED internVars
                ELSE /\ SaveEnrollment(g, [g.row EXCEPT
                                             !.status = "Graded",
                                             !.ai_score = ScoreOf(r.text)])
                     /\ resp' = Send([BaseResponse("grade_internship", HttpOk,
                                              {"message", "score", "feedback"})
                                 EXCEPT !.gen_calls = 1,
                                        !.score = ScoreOf(r.text),
                                        !.source = "ai"])

\* ---------------------------------------------------------------- quiz
\* The stored questions are a pre-built quiz: at least 10 of them, the first
\* an object with an "options" key.
HasStoredQuiz(iq) ==
    /\ iq.t = "list"
    /\ Len(iq.items) >= QuizMinQuestions
    /\ iq.items[1].kind = "obj"
    /\ "options" \in iq.items[1].has

leak_question(q) == q

\* {"question": q.get("question", ""), "options": q.get("options", [])}
safe_question(q) ==
    [kind |-> "obj", has |-> {"question", "options"},
     val |-> [NoFields EXCEPT !.question = Get(q, "question", 0),
                              !.options = Get(q, "options", 0)]]

AllObjects(v) ==
    v.t = "list" /\ \A k \in DOMAIN v.items : v.items[k].kind = "obj"

\* The loop that builds safe_questions, and the response: a question that
\* is not an object, or a value that is not a list, raises out of the view.
QuizResponse(questions, source, calls) ==
    IF AllObjects(questions)
    THEN [BaseResponse("generate_quiz", HttpOk, {"questions", "total"})
          EXCEPT !.questions = [k \in DOMAIN questions.items |->
                                   safe_question(questions.items[k])],
                 !.source = source, !.gen_calls = calls]
    ELSE Crash("generate_quiz", calls)

\* internship.interview_questions = questions; internship.save()
StoreQuestions(id, questions) ==
    {IF i.id = id THEN [i EXCEPT !.interview_questions = questions] ELSE i :
        i \in internships}

GenerateQuiz(u, id, o) ==
    /\ UNCHANGED <<otherThanIntern, enrollments, nextInternId, nextEnrollId>>
    /\ IF ~InternshipExists(id)
       THEN /\ resp' = Send(ErrorResponse("generate_quiz", HttpNotFound, 0, FALSE))
            /\ UNCHANGED <<internships, cache>>
       ELSE LET iq == InternshipById(id).interview_questions
                key == quiz_cache_key(InternshipById(id).title)
                cached == cache_get(key)
                r == ai_generate(o)
                parsed == IF r.ok THEN parse_array_or_cleaned(r.text)
                          ELSE ParseError
            IN  IF iq.t = "number" /\ Truthy(iq)
                THEN \* len() of a number raises
                     /\ resp' = Send(Crash("generate_quiz", 0))
                     /\ UNCHANGED <<internships, cache>>
                ELSE IF HasStoredQuiz(iq)
                THEN /\ resp' = Send(QuizResponse(iq, "db", 0))
                     /\ UNCHANGED <<internships, cache>>
                ELSE IF Truthy(cached)
                THEN /\ internships' = StoreQuestions(id, cached)
                     /\ resp' = Send(QuizResponse(cached, "cache", 0))
                     /\ UNCHANGED cache
                ELSE IF parsed.t = "error"
                THEN /\ resp' = Send(ErrorResponse("generate_quiz", HttpServerError, 1, TRUE))
                     /\ UNCHANGED <<internships, cache>>
                ELSE /\ cache' = cache_set(key, parsed)
                     /\ internships' = StoreQuestions(id, parsed)
                     /\ resp' = Send(QuizResponse(parsed, "ai", 1))

round_half_up(num, den) == (2 * num + den) \div (2 * den)

\* internship.save() of the row the view holds: every column of the row
\* with that id is written, and the row is inserted when it is gone.
SaveInternship(row) == {i \in internships : i.id # row.id} \cup {row}

\* generate_quiz up to the cache read, for requests that overlap: the row
\* is read, and a stored or a cached quiz is served at once; a miss goes on
\* to the generation call, the view holding the row it has read.
QuizLookup(u, id) ==
    /\ quizReq[u].pc = "idle"
    /\ UNCHANGED <<client_ready, accept_language, planVars, jobVars, vibeVars,
                   cache, now, enrollments, nextInternId, nextEnrollId>>
    /\ IF ~InternshipExists(id)
       THEN /\ resp' = Send(ErrorResponse("generate_quiz", HttpNotFound, 0, FALSE))
            /\ UNCHANGED <<internships, quizReq>>
       ELSE LET iq == InternshipById(id).interview_questions
                cached == cache_get(quiz_cache_key(InternshipById(id).title))
            IN  IF iq.t = "number" /\ Truthy(iq)
                THEN /\ resp' = Send(Crash("generate_quiz", 0))
                     /\ UNCHANGED <<internships, quizReq>>
                ELSE IF HasStoredQuiz(iq)
                THEN /\ resp' = Send(QuizResponse(iq, "db", 0))
                     /\ UNCHANGED <<internships, quizReq>>
                ELSE IF Truthy(cached)
                THEN /\ internships' = StoreQuestions(id, cached)
                     /\ resp' = Send(QuizResponse(cached, "cache", 0))
                     /\ UNCHANGED quizReq
                ELSE /\ quizReq' = [quizReq EXCEPT ![u] =
                                      [pc |-> "generate",
                                       internship |-> InternshipById(id)]]
                     /\ UNCHANGED <<internships, resp>>

\* generate_quiz from the generation call on: the questions are parsed,
\* written to the cache and saved on the row the view holds.
QuizGenerate(u, o) ==
    /\ quizReq[u].pc = "generate"
    /\ UNCHANGED <<client_ready, accept_language, planVars, jobVars, vibeVars,
                   now, enrollments, nextInternId, nextEnrollId>>
    /\ quizReq' = [quizReq EXCEPT ![u] =
                     [pc |-> "idle", internship |-> NoInternship]]
    /\ LET row == quizReq[u].internship
           r == ai_generate(o)
           parsed == IF r.ok THEN parse_array_or_cleaned(r.text)
                     ELSE ParseError
       IN  IF parsed.t = "error"
           THEN /\ resp' = Send(ErrorResponse("generate_quiz", HttpServerError, 1, TRUE))
                /\ UNCHANGED <<internships, cache>>
           ELSE /\ cache' = cache_set(quiz_cache_key(row.title), parsed)
                /\ internships' =
                     SaveInternship([row EXCEPT !.interview_questions = parsed])
                /\ resp' = Send(QuizResponse(parsed, "ai", 1))

\* Python's round() of num/den: to the nearest integer, ties to even.
PyRound(num, den) ==
    LET q == num \div den
        r == num % den
    IN  IF 2 * r < den THEN q
        ELSE IF 2 * r > den THEN q + 1
        ELSE IF q % 2 = 0 THEN q ELSE q + 1

\* answers[i] if i < len(answers) else -1
AnswerAt(answers, k) == IF k <= Len(answers) THEN answers[k] ELSE -1

CorrectCount(questions, answers) ==
    Cardinality({k \in DOMAIN questions.items :
                    AnswerAt(answers, k) = Get(questions.items[k], "correct", 0)})

QuizScore(questions, answers) ==
    PyRound(CorrectCount(questions, answers) * 100, Len(questions.items))

status_reset_on_fail(passed, old) == IF passed THEN "Graded" ELSE "Enrolled"

\* if passed: enrollment.status = "Graded"
StatusAfterQuiz(passed, old) == IF passed THEN "Graded" ELSE old

AnswerSheets ==
    {<<>>, <<1>>, <<0>>,
     <<1, 1, 1, 1, 1, 1, 1, 1, 1, 1>>,
     <<1, 1, 1, 1, 1, 1, 0, 0, 0, 0>>,
     <<1, 1, 1, 1, 1, 0, 0, 0, 0, 0>>}

SubmitQuiz(u, id, answers) ==
    /\ UNCHANGED <<otherThanIntern, cache>>
    /\ IF ~InternshipExists(id)
       THEN /\ resp' = Send(ErrorResponse("submit_quiz", HttpNotFound, 0, FALSE))
            /\ UNCHANGED internVars
       ELSE LET questions == InternshipById(id).interview_questions
                g == get_or_create(u, id)
                score == QuizScore(questions, answers)
                passed == score >= PassMark
            IN  IF ~Truthy(questions)
                THEN /\ resp' = Send(ErrorResponse("submit_quiz", HttpBadRequest, 0, FALSE))
                     /\ UNCHANGED internVars
                ELSE IF ~AllObjects(questions) \/ g.outcome = "multiple"
                THEN /\ resp' = Send(Crash("submit_quiz", 0))
                     /\ UNCHANGED internVars
                ELSE /\ SaveEnrollment(g, [g.row EXCEPT
                             !.ai_score = score,
                             !.status = StatusAfterQuiz(passed, @)])
                     /\ resp' = Send([BaseResponse("submit_quiz", HttpOk,
                                     {"score", "correct", "total", "passed",
                                      "results", "feedback"})
                                 EXCEPT !.score = score, !.passed = passed])

OneUser == {"u1"}
InternshipIds == 1..MaxInternId

\* A specification draws what the generation service answers from one of
\* these sets.
InternOutcomes == {Failure, [ok |-> TRUE, text |-> TextOneObject]}
FewGradeOutcomes == {Failure, [ok |-> TRUE, text |-> <<"SCORE:", "85", "FEEDBACK:">>]}
QuizOutcomes == {[ok |-> TRUE, text |-> TextQuiz]}
FewAnswerSheets ==
    {<<>>, <<1, 1, 1, 1, 1, 1, 0, 0, 0, 0>>}

\* Internships, enrollment, grading and the quiz exam.
NextEnroll ==
    \/ \E u \in Users, o \in InternOutcomes : GenerateInternships(u, o)
    \/ \E u \in Users, id \in InternshipIds : EnrollInternship(u, id)
    \/ \E u \in Users, id \in InternshipIds, o \in FewGradeOutcomes :
          GradeInternship(u, id, o)
    \/ \E u \in Users, id \in InternshipIds, o \in QuizOutcomes :
          GenerateQuiz(u, id, o)
    \/ \E u \in Users, id \in InternshipIds, a \in FewAnswerSheets :
          SubmitQuiz(u, id, a)

SpecEnroll == InitUnobserved /\ [][NextEnroll]_vars

IngestTexts ==
    {<<"[", "S", "A", "S", "]">>, <<"[", "S", "B", "]">>, <<"[", "D", "S", "]">>,
     <<"[", "S", "]">>, TextMixed, <<"[", "B", "S", "D", "]">>}

\* Internship sets whose entries are strings and objects, ingested for two
\* users who also enroll.
NextIngest ==
    \/ \E u \in Users, t \in IngestTexts :
          GenerateInternships(u, [ok |-> TRUE, text |-> t])
    \/ \E u \in Users, id \in InternshipIds : EnrollInternship(u, id)
    \/ Tick

SpecIngest == Init /\ [][NextIngest]_vars

RegenOutcomes ==
    {Failure, [ok |-> TRUE, text |-> TextGarbage],
     [ok |-> TRUE, text |-> TextOneObject], [ok |-> TRUE, text |-> TextObjectD]}

\* Internship sets regenerated, with calls that fail, by users who enroll
\* in some of them.
NextRegenerate ==
    \/ \E u \in Users, o \in RegenOutcomes : GenerateInternships(u, o)
    \/ \E u \in Users, id \in InternshipIds : EnrollInternship(u, id)
    \/ Tick

SpecRegenerate == Init /\ [][NextRegenerate]_vars

\* Grading by the generation service and by the quiz, every score text and
\* every answer sheet.
NextGrade ==
    \/ \E u \in OneUser, o \in InternOutcomes : GenerateInternships(u, o)
    \/ \E u \in OneUser, id \in InternshipIds, o \in GradeOutcomes :
          GradeInternship(u, id, o)
    \/ \E u \in OneUser, id \in InternshipIds, o \in QuizOutcomes :
          GenerateQuiz(u, id, o)
    \/ \E u \in OneUser, id \in InternshipIds, a \in AnswerSheets :
          SubmitQuiz(u, id, a)
    \/ Tick

SpecGrade == Init /\ [][NextGrade]_vars

TextEight == <<"[", "A", "A", "A", "A", "A", "A", "A", "A", "]">>

ExamOutcomes ==
    {[ok |-> TRUE, text |-> TextOneObject], [ok |-> TRUE, text |-> TextEight],
     [ok |-> TRUE, text |-> TextQuiz]}

\* The quiz exam of one user: quizzes of one, eight and ten questions,
\* every answer sheet, and the cache's entries expiring.
NextExam ==
    \/ \E u \in OneUser, o \in InternOutcomes : GenerateInternships(u, o)
    \/ \E u \in OneUser, id \in InternshipIds, o \in ExamOutcomes :
          GenerateQuiz(u, id, o)
    \/ \E u \in OneUser, id \in InternshipIds, a \in AnswerSheets :
          SubmitQuiz(u, id, a)
    \/ Tick

SpecExam == Init /\ [][NextExam]_vars

\* --------------------------------------------------------- career plan
otherThanPlan ==
    <<client_ready, accept_language, quizReq, internVars, jobVars, vibeVars, cache,
      now>>

\* request.data.get("extra_info", "")
ExtraInfos == {<<>>, <<" ">>, <<"x">>}

PlansOf(u) == {p \in careerPlans : p.user = u}

\* CareerPlan.objects.filter(user=user).order_by("-created_at").first():
\* rows are created in id order.
LatestPlan(u) == CHOOSE p \in PlansOf(u) : \A q \in PlansOf(u) : q.id <= p.id

plan_fallback_response(parsed, plan_id) ==
    [BaseResponse("generate_career_plan", HttpOk,
                  {"status", "career_plan", "plan_id"})
     EXCEPT !.content = ListValue(<<>>), !.gen_calls = 1,
            !.gen_failed = parsed.t = "error", !.source = "default"]

\* The end of generate_career_plan's try block: json.loads raised, or the
\* parsed plan is returned.
plan_response(parsed, plan_id) ==
    IF parsed.t = "error"
    THEN ErrorResponse("generate_career_plan", HttpServerError, 1, TRUE)
    ELSE [BaseResponse("generate_career_plan", HttpOk,
                       {"status", "career_plan", "plan_id"})
          EXCEPT !.content = parsed, !.gen_calls = 1, !.source = "ai",
                 !.plan_id = plan_id]

GenerateCareerPlan(u, extra, o) ==
    /\ UNCHANGED otherThanPlan
    /\ LET extra_info == strip(extra)
           cached == IF extra_info = <<>> /\ PlansOf(u) # {}
                     THEN json_loads(LatestPlan(u).plan_details)
                     ELSE ParseError
           r == ai_generate(o)
           text_response == strip_fences(r.text)
       IN  IF cached.t # "error"
           THEN /\ resp' = Send([BaseResponse("generate_career_plan", HttpOk,
                                    {"status", "career_plan", "plan_id",
                                     "cached"})
                                 EXCEPT !.content = cached, !.source = "db",
                                        !.plan_id = LatestPlan(u).id])
                /\ UNCHANGED planVars
           ELSE IF ~r.ok
           THEN /\ resp' = Send(ErrorResponse("generate_career_plan",
                                              HttpServerError, 1, TRUE))
                /\ UNCHANGED planVars
           ELSE /\ nextPlanId <= MaxPlanId
                /\ careerPlans' = careerPlans \cup
                       {[id |-> nextPlanId, user |-> u,
                         plan_details |-> text_response]}
                /\ nextPlanId' = nextPlanId + 1
                /\ resp' = Send(plan_response(json_loads(text_response),
                                              nextPlanId))

\* -------------------------------------------------------- travel planner
\* plan_json = match.group() if match else "[]"; the literal "[]" also when
\* the generation call raised.
TravelPlanner(u, o) ==
    /\ UNCHANGED <<client_ready, accept_language, quizReq, internVars, planVars,
                   jobVars, vibeVars,
                   cache, now>>
    /\ LET r == ai_generate(o)
           plan_json == IF r.ok /\ HasBracketMatch(r.text)
                        THEN bracket_match(r.text)
                        ELSE <<"[", "]">>
       IN  resp' = Send([BaseResponse("travel_planner", HttpOk,
                            {"status", "travel_plan", "flight_search_url"})
                         EXCEPT !.text = plan_json, !.gen_calls = 1,
                                !.gen_failed = ~r.ok,
                                !.source = IF r.ok /\ HasBracketMatch(r.text)
                                           THEN "ai" ELSE "default"])

\* ------------------------------------------------------- user profiles
\* CustomUser.occupation, skills, city, country of the two users.
BackendEngineer ==
    <<"B", "a", "c", "k", "e", "n", "d", " ", "E", "n", "g", "i", "n", "e", "e", "r">>
SoftwareDeveloper ==
    <<"S", "o", "f", "t", "w", "a", "r", "e", " ", "D", "e", "v", "e", "l", "o", "p", "e", "r">>
Occupation(u) == IF u \in {"u1", "u3"} THEN BackendEngineer ELSE <<>>
Skills(u) == IF u \in {"u1", "u3"} THEN <<>> ELSE <<<<"g", "o">>>>
UserCity(u) ==
    CASE u \in {"u1", "u4"} -> <<"N", "y">> [] u = "u2" -> <<"n", "y">>
      [] OTHER -> <<>>
UserCountry(u) == IF u = "u2" THEN <<"u", "s", "a">> ELSE <<>>

\* ----------------------------------------------------------- job search
otherThanJobs ==
    <<client_ready, accept_language, quizReq, internVars, planVars, vibeVars, now>>

IdleJobs == [pc |-> "idle", query |-> <<>>, location |-> <<>>]

\* request.query_params.get("query", ""), ...get("location", "")
QueryParams == {<<>>, <<"Q", "a", " ">>}
LocationParams == {<<>>}

\* The query searched for: the parameter, else the profile's occupation,
\* else its first skill, else "Software Developer".
QueryUsed(u, param) ==
    IF strip(param) # <<>> THEN strip(param)
    ELSE IF Occupation(u) # <<>> THEN Occupation(u)
    ELSE IF Skills(u) # <<>> THEN Skills(u)[1]
    ELSE SoftwareDeveloper

\* The location: the parameter, else the profile's city, else its country.
LocationUsed(u, param) ==
    IF strip(param) # <<>> THEN strip(param)
    ELSE IF UserCity(u) # <<>> THEN UserCity(u)
    ELSE UserCountry(u)

ProfessionalSuffix ==
    <<" ", "P", "r", "o", "f", "e", "s", "s", "i", "o", "n", "a", "l">>

\* The ScrapedJob row made from one entry of jobs_data.
NewJob(u, id, query, job) ==
    [id |-> id, user |-> u,
     title |-> Get(job, "title", query \o ProfessionalSuffix)]

\* What the loop over jobs_data creates a row for: the items that are
\* objects (job.get on a string raises, and the loop passes over it).
JobItems(jobs_data) ==
    IF jobs_data.t = "list" /\ Truthy(jobs_data) THEN ObjectItems(jobs_data)
    ELSE <<>>

\* The response of scrape_jobs: status "success" and the jobs created; a
\* truthy value that is no list raised out of the view before it.
jobs_response(jobs_data, source, calls, failed) ==
    IF jobs_data.t = "number" /\ Truthy(jobs_data)
    THEN Crash("scrape_jobs", calls)
    ELSE [BaseResponse("scrape_jobs", HttpOk,
                       {"status", "count", "query_used", "location_used",
                        "jobs"})
          EXCEPT !.content = ListValue(JobItems(jobs_data)),
                 !.source = source, !.gen_calls = calls,
                 !.gen_failed = failed]

keep_all_jobs(u) == scrapedJobs

\* ScrapedJob.objects.filter(user=user).delete(): what is left
OtherUsersJobs(u) == {j \in scrapedJobs : j.user # u}

\* The rest of scrape_jobs once jobs_data is known: the user's rows are
\* deleted, one row is created per job, and the response is sent.  A truthy
\* value that is no list raises out of the view after the deletion.
PersistJobs(u, query, jobs_data, source, calls, failed) ==
    LET items == JobItems(jobs_data)
    IN  /\ nextJobId + Len(items) - 1 <= MaxJobId
        /\ scrapedJobs' =
             OtherUsersJobs(u) \cup
             {NewJob(u, nextJobId + k - 1, query, items[k]) :
                 k \in 1..Len(items)}
        /\ nextJobId' = nextJobId + Len(items)
        /\ jobsReq' = [jobsReq EXCEPT ![u] = IdleJobs]
        /\ resp' = Send(jobs_response(jobs_data, source, calls, failed))

\* scrape_jobs up to the cache read: a hit is served at once, a miss goes
\* on to the generation call.
JobsLookup(u, qparam, lparam) ==
    /\ jobsReq[u].pc = "idle"
    /\ UNCHANGED <<otherThanJobs, cache>>
    /\ LET query == QueryUsed(u, qparam)
           location == LocationUsed(u, lparam)
           jobs_data == cache_get(jobs_cache_key(query, location))
       IN  IF Truthy(jobs_data)
           THEN PersistJobs(u, query, jobs_data, "cache", 0, FALSE)
           ELSE /\ jobsReq' = [jobsReq EXCEPT ![u] =
                                 [pc |-> "generate", query |-> query,
                                  location |-> location]]
                /\ UNCHANGED <<scrapedJobs, nextJobId, resp>>

\* except Exception: jobs_data = []
jobs_fallback == ListValue(<<>>)

\* scrape_jobs from the generation call on: the text is parsed and cached,
\* or the empty list stands in for it.
JobsGenerate(u, o) ==
    /\ jobsReq[u].pc = "generate"
    /\ UNCHANGED otherThanJobs
    /\ LET r == ai_generate(o)
           parsed == IF r.ok THEN parse_fenced_array(r.text) ELSE ParseError
           key == jobs_cache_key(jobsReq[u].query, jobsReq[u].location)
       IN  IF parsed.t = "error"
           THEN /\ cache' = cache
                /\ PersistJobs(u, jobsReq[u].query, jobs_fallback, "default",
                               1, TRUE)
           ELSE /\ cache' = cache_set(key, parsed)
                /\ PersistJobs(u, jobsReq[u].query, parsed, "ai", 1, FALSE)

\* ---------------------------------------------------------- local vibes
otherThanVibes ==
    <<client_ready, accept_language, quizReq, internVars, planVars, jobVars, cache,
      now>>

NewYork == <<"N", "e", "w", " ", "Y", "o", "r", "k">>
Usa == <<"U", "S", "A">>

\* city = (user.city or "New York").strip()
CityOf(u) == strip(IF UserCity(u) # <<>> THEN UserCity(u) ELSE NewYork)
\* country = (user.country or "USA").strip()
CountryOf(u) == strip(IF UserCountry(u) # <<>> THEN UserCountry(u) ELSE Usa)

VibeObject(title) ==
    [kind |-> "obj",
     has |-> {"title", "type", "description", "value", "location_detail",
              "image_query"},
     val |-> [NoFields EXCEPT !.title = title]]

\* The hand-authored default of three events.
DefaultVibes ==
    ListValue(<<VibeObject(<<"G", "l", "o", "b", "a", "l", " ", "F", "u", "s", "i", "o", "n", " ", "F", "e", "s", "t", "i", "v", "a", "l">>),
                VibeObject(<<"T", "e", "c", "h", " ", "C", "a", "r", "e", "e", "r", " ", "M", "i", "x", "e", "r">>),
                VibeObject(<<"S", "t", "u", "d", "e", "n", "t", " ", "N", "i", "g", "h", "t", " ", "O", "u", "t">>)>>)

no_matches(u) == {}

\* update_or_create's lookup: get(city=city, country=country)
exact_matches(u) ==
    {v \in localVibes : v.city = CityOf(u) /\ v.country = CountryOf(u)}

\* LocalVibe.objects.filter(city__iexact=city, country__iexact=country)
VibeMatches(u) ==
    {v \in localVibes :
        /\ lower(v.city) = lower(CityOf(u))
        /\ lower(v.country) = lower(CountryOf(u))}

\* .first() of an unordered queryset: the row with the least id
FirstVibe(rows) == CHOOSE v \in rows : \A w \in rows : v.id <= w.id

\* `existing and existing.offers`
UsableVibe(rows) == rows # {} /\ Truthy(FirstVibe(rows).offers)

\* A request: where it stands (pc), its refresh flag, the value it is about
\* to save (events), and what it has seen: the ids and the first offers of
\* the rows that matched when it began (start_ids, start_offers), and
\* whether it read a stored row before it deleted any (read).
IdleVibes ==
    [pc |-> "idle", refresh |-> FALSE, events |-> NoneValue,
     start_ids |-> {}, start_offers |-> NoneValue, read |-> FALSE]

VibesResponse(content, source, calls, failed) ==
    [BaseResponse("local_discounts_and_events", HttpOk,
                  {"location", "active_offers"})
     EXCEPT !.content = content, !.source = source, !.gen_calls = calls,
            !.gen_failed = failed]

always_lookup(refresh) == "lookup"

\* if not refresh: (look the row up)   if refresh: (delete it)
FirstStep(refresh) == IF refresh THEN "delete" ELSE "lookup"

\* The request arrives; refresh is the query parameter.
VibesBegin(u, refresh) ==
    /\ vibesReq[u].pc = "idle"
    /\ vibesReq' = [vibesReq EXCEPT ![u] =
          [IdleVibes EXCEPT
              !.pc = FirstStep(refresh),
              !.refresh = refresh,
              !.start_ids = {v.id : v \in VibeMatches(u)},
              !.start_offers = IF VibeMatches(u) = {} THEN NoneValue
                               ELSE FirstVibe(VibeMatches(u)).offers]]
    /\ UNCHANGED <<otherThanVibes, localVibes, nextVibeId, resp>>

\* The lookup: a row with offers answers the request.
VibesLookup(u) ==
    /\ vibesReq[u].pc = "lookup"
    /\ UNCHANGED <<otherThanVibes, localVibes, nextVibeId>>
    /\ IF UsableVibe(VibeMatches(u))
       THEN /\ resp' = Send(VibesResponse(FirstVibe(VibeMatches(u)).offers,
                                          "db", 0, FALSE))
            /\ vibesReq' = [vibesReq EXCEPT ![u] = IdleVibes]
       ELSE /\ vibesReq' = [vibesReq EXCEPT
                              ![u].pc = IF vibesReq[u].refresh THEN "delete"
                                        ELSE "generate",
                              ![u].read = VibeMatches(u) # {}]
            /\ resp' = resp

\* The refresh: the stale rows are deleted.
VibesDelete(u) ==
    /\ vibesReq[u].pc = "delete"
    /\ localVibes' = localVibes \ VibeMatches(u)
    /\ vibesReq' = [vibesReq EXCEPT ![u].pc = "generate"]
    /\ UNCHANGED <<otherThanVibes, nextVibeId, resp>>

\* The generation call, and the parsing of its text.
VibesGenerate(u, o) ==
    /\ vibesReq[u].pc = "generate"
    /\ LET r == ai_generate(o)
           events == IF r.ok THEN parse_fenced_array(r.text) ELSE ParseError
       IN  vibesReq' = [vibesReq EXCEPT
                          ![u].pc = IF events.t = "error" THEN "fallback"
                                    ELSE "save",
                          ![u].events = events]
    /\ UNCHANGED <<otherThanVibes, localVibes, nextVibeId, resp>>

\* LocalVibe.objects.update_or_create(city=city, country=country,
\* defaults={"offers": events}), then the response; len(events) of a number
\* raises after the row is written.
VibesSave(u) ==
    /\ vibesReq[u].pc = "save"
    /\ UNCHANGED otherThanVibes
    /\ LET events == vibesReq[u].events
       IN  /\ IF exact_matches(u) = {}
              THEN /\ nextVibeId <= MaxVibeId
                   /\ localVibes' = localVibes \cup
                        {[id |-> nextVibeId, city |-> CityOf(u),
                          country |-> CountryOf(u), offers |-> events]}
                   /\ nextVibeId' = nextVibeId + 1
              ELSE /\ localVibes' =
                        {IF v \in exact_matches(u)
                         THEN [v EXCEPT !.offers = events] ELSE v :
                            v \in localVibes}
                   /\ nextVibeId' = nextVibeId
           /\ IF events.t = "list"
              THEN /\ resp' = Send(VibesResponse(events, "ai", 1, FALSE))
                   /\ vibesReq' = [vibesReq EXCEPT ![u] = IdleVibes]
              ELSE /\ resp' = resp
                   /\ vibesReq' = [vibesReq EXCEPT ![u].pc = "fallback"]

vibes_failure_is_an_error(rows) ==
    ErrorResponse("local_discounts_and_events", HttpServerError, 1, TRUE)

\* The except clause: the stale row's offers if there is one, else the
\* hand-authored default.
vibes_fallback_response(rows) ==
    IF UsableVibe(rows)
    THEN VibesResponse(FirstVibe(rows).offers, "db", 1, TRUE)
    ELSE VibesResponse(DefaultVibes, "default", 1, TRUE)

\* an except clause that stores what it serves
fallback_is_saved(u) ==
    /\ vibesReq[u].pc = "fallback"
    /\ nextVibeId <= MaxVibeId
    /\ localVibes' = (localVibes \ exact_matches(u)) \cup
          {[id |-> nextVibeId, city |-> CityOf(u), country |-> CountryOf(u),
            offers |-> vibes_fallback_response(VibeMatches(u)).content]}
    /\ nextVibeId' = nextVibeId + 1
    /\ resp' = Send(vibes_fallback_response(VibeMatches(u)))
    /\ vibesReq' = [vibesReq EXCEPT ![u] = IdleVibes]
    /\ UNCHANGED otherThanVibes

VibesFallback(u) ==
    /\ vibesReq[u].pc = "fallback"
    /\ resp' = Send(vibes_fallback_response(VibeMatches(u)))
    /\ vibesReq' = [vibesReq EXCEPT ![u] = IdleVibes]
    /\ UNCHANGED <<otherThanVibes, localVibes, nextVibeId>>

VibeOutcomes ==
    {Failure, [ok |-> TRUE, text |-> TextOneObject],
     [ok |-> TRUE, text |-> TextEmptyArray]}

VibesStep(u) ==
    \/ \E refresh \in BOOLEAN : VibesBegin(u, refresh)
    \/ VibesLookup(u)
    \/ VibesDelete(u)
    \/ \E o \in VibeOutcomes : VibesGenerate(u, o)
    \/ VibesSave(u)
    \/ VibesFallback(u)

\* Local recommendations, requests of the two users interleaving.
NextVibes == \E u \in Users : VibesStep(u)

SpecVibes == Init /\ [][NextVibes]_vars

JobOutcomes ==
    {Failure, [ok |-> TRUE, text |-> TextOneObject],
     [ok |-> TRUE, text |-> TextEmptyArray]}

JobsStep(u) ==
    \/ \E q \in QueryParams, l \in LocationParams : JobsLookup(u, q, l)
    \/ \E o \in JobOutcomes : JobsGenerate(u, o)

\* Job search of the two users, with the cache's entries expiring.
NextJobs ==
    \/ \E u \in Users : JobsStep(u)
    \/ Tick

SpecJobs == Init /\ [][NextJobs]_vars

\* Job search of the two users while no cache entry expires.
NextJobRows == \E u \in Users : JobsStep(u)

SpecJobRows == Init /\ [][NextJobRows]_vars

FeedOutcomes ==
    {Failure, [ok |-> TRUE, text |-> TextOneObject],
     [ok |-> TRUE, text |-> TextGarbage],
     [ok |-> TRUE, text |-> TextNumber]}

\* Job search by the two callers whose occupation is Backend Engineer, one
\* with a city in the profile and one without.
NextJobKeys ==
    \/ \E u \in {"u1", "u3"}, q \in QueryParams, l \in LocationParams :
          JobsLookup(u, q, l)
    \/ \E u \in {"u1", "u3"}, o \in JobOutcomes : JobsGenerate(u, o)

SpecJobKeys == Init /\ [][NextJobKeys]_vars

\* Queries that differ in case and in the spaces around the words, and one
\* that differs in the spaces between them.
QueryQA == <<"Q", " ", "a">>
FoldedQueries == {QueryQA, <<"q", " ", "A">>, <<" ", "Q", " ", "a", " ">>}
SpacedQuery == <<"Q", " ", " ", "a">>

TextObjectB == <<"[", "B", "]">>
TextObjectC == <<"[", "C", "]">>

KeyLocation == <<"X">>

\* Searches of two callers and quiz titles that differ in case and in
\* spacing.
NextKeys ==
    \/ \E u \in {"u1", "u3"}, q \in FoldedQueries \cup {SpacedQuery} :
          JobsLookup(u, q, KeyLocation)
    \/ \E u \in {"u1", "u3"}, t \in {TextObjectB} :
          JobsGenerate(u, [ok |-> TRUE, text |-> t])
    \/ \E t \in {TextOneObject, TextObjectC} :
          GenerateInternships("u1", [ok |-> TRUE, text |-> t])
    \/ \E id \in InternshipIds, o \in QuizOutcomes : GenerateQuiz("u1", id, o)

SpecKeys == Init /\ [][NextKeys]_vars

\* A fenced array followed by a note in brackets.
TextFencedNotes == <<"FJ", "[", "A", "]", "F", "[", "p", "]">>

ParsingTexts == {TextOneObject, TextFenced, TextFencedNotes, TextProse}

\* The endpoints that parse an array, on fenced and on free text.
NextParsing ==
    \/ \E t \in ParsingTexts :
          GenerateInternships("u1", [ok |-> TRUE, text |-> t])
    \/ \E q \in QueryParams, l \in LocationParams : JobsLookup("u3", q, l)
    \/ \E t \in ParsingTexts : JobsGenerate("u3", [ok |-> TRUE, text |-> t])
    \/ \E x \in ExtraInfos, t \in ParsingTexts :
          GenerateCareerPlan("u1", x, [ok |-> TRUE, text |-> t])

SpecParsing == Init /\ [][NextParsing]_vars

RaceQuizOutcomes ==
    {Failure, [ok |-> TRUE, text |-> TextEight], [ok |-> TRUE, text |-> TextQuiz]}

\* Requests of two users for one key that overlap: job searches for the
\* same query in the same city, and quizzes of the same internship.
NextRace ==
    \/ GenerateInternships("u1", [ok |-> TRUE, text |-> TextOneObject])
    \/ \E u \in Users, id \in InternshipIds : QuizLookup(u, id)
    \/ \E u \in Users, o \in RaceQuizOutcomes : QuizGenerate(u, o)
    \/ \E u \in Users : JobsLookup(u, <<"Q", "a", " ">>, <<>>)
    \/ \E u \in Users, o \in JobOutcomes : JobsGenerate(u, o)

SpecRace == Init /\ [][NextRace]_vars

Neighbours == {"u1", "u4"}

RefreshOutcomes ==
    {[ok |-> TRUE, text |-> TextOneObject], [ok |-> TRUE, text |-> TextObjectB]}

\* Refreshes of two users of one city that overlap, every generation call
\* returning an array.
NextRefresh ==
    \/ \E u \in Neighbours : VibesBegin(u, TRUE)
    \/ \E u \in Neighbours : VibesDelete(u)
    \/ \E u \in Neighbours, o \in RefreshOutcomes : VibesGenerate(u, o)
    \/ \E u \in Neighbours : VibesSave(u)

SpecRefresh == Init /\ [][NextRefresh]_vars

SearchQueries == {<<"a">>, <<"a", " ", "b">>}
SearchLocations == {<<"b", " ", "c">>, <<"c">>}

\* Searches of two callers whose words are split differently between the
\* query and the location.
NextSearch ==
    \/ \E u \in {"u1", "u3"}, q \in SearchQueries, l \in SearchLocations :
          JobsLookup(u, q, l)
    \/ \E u \in {"u1", "u3"}, t \in {TextOneObject, TextObjectB} :
          JobsGenerate(u, [ok |-> TRUE, text |-> t])

SpecSearch == Init /\ [][NextSearch]_vars

\* Job search and local recommendations of one user, side by side.
NextFeeds ==
    \/ \E q \in QueryParams, l \in LocationParams : JobsLookup("u1", q, l)
    \/ \E o \in FeedOutcomes : JobsGenerate("u1", o)
    \/ \E refresh \in BOOLEAN : VibesBegin("u1", refresh)
    \/ VibesLookup("u1")
    \/ VibesDelete("u1")
    \/ \E o \in FeedOutcomes : VibesGenerate("u1", o)
    \/ VibesSave("u1")
    \/ VibesFallback("u1")

SpecFeeds == Init /\ [][NextFeeds]_vars

PlanOutcomes ==
    {Failure, [ok |-> TRUE, text |-> TextOneObject],
     [ok |-> TRUE, text |-> TextGarbage], [ok |-> TRUE, text |-> TextFenced]}

\* Career plans and grading, the two paths that surface a failure.
NextPlan ==
    \/ \E u \in OneUser, x \in ExtraInfos, o \in PlanOutcomes :
          GenerateCareerPlan(u, x, o)
    \/ \E u \in OneUser, o \in InternOutcomes : GenerateInternships(u, o)
    \/ \E u \in OneUser, id \in InternshipIds, o \in FewGradeOutcomes :
          GradeInternship(u, id, o)

SpecPlan == Init /\ [][NextPlan]_vars

\* Requests of a client that changes its locale.
NextLocale ==
    \/ \E lang \in Languages : SetLanguage(lang)
    \/ \E o \in PlanOutcomes : TravelPlanner("u1", o)
    \/ \E x \in ExtraInfos, o \in PlanOutcomes :
          GenerateCareerPlan("u1", x, o)
    \/ \E o \in InternOutcomes : GenerateInternships("u1", o)

SpecLocale == Init /\ [][NextLocale]_vars

\* The endpoints that return generated content without storing it per row:
\* career plans and the travel planner, with any generation response.
NextTravel ==
    \/ \E u \in Users, o \in Outcomes : TravelPlanner(u, o)
    \/ \E u \in OneUser, x \in ExtraInfos, o \in Outcomes :
          GenerateCareerPlan(u, x, o)

SpecTravel == Init /\ [][NextTravel]_vars

\* Quiz retrieval through its three tiers, with any generation response and
\* the cache's entries expiring.
NextQuiz ==
    \/ \E u \in Users, o \in InternOutcomes : GenerateInternships(u, o)
    \/ \E u \in Users, id \in InternshipIds, o \in Outcomes :
          GenerateQuiz(u, id, o)
    \/ Tick

SpecQuiz == Init /\ [][NextQuiz]_vars

\* =============================================================== claims

\* C1: generate_internships never deletes an Internship row that some
\* Enrollment row references, whoever the enrolled user is and whatever the
\* enrollment's status: an internship with an enrollment in one state is
\* still a row in the next.
C1_EnrolledInternshipsSurvive ==
    [][\A i \in internships :
          (\E e \in enrollments : e.internship = i.id)
              => \E j \in internships' : j.id = i.id]_vars

\* C9: at most one Enrollment row exists for each (user, internship) pair.
C9_OneEnrollmentPerPair ==
    \A u \in Users, id \in InternshipIds : Cardinality(Matching(u, id)) <= 1

\* One row was ever created, and it has been graded and then failed a quiz:
\* several calls went through get_or_create for the same pair.
C9_Witness ==
    /\ nextEnrollId = 2
    /\ \E e \in enrollments : e.status = "Graded" /\ e.ai_score = 0

\* C10: every Enrollment row has status 'Enrolled' or 'Graded', and a row
\* that is 'Graded' is still 'Graded' after any step that keeps it.
C10_StatusMovesForward ==
    [][/\ \A e \in enrollments' : e.status \in {"Enrolled", "Graded"}
       /\ \A e \in enrollments, f \in enrollments' :
             (e.id = f.id /\ e.status = "Graded") => f.status = "Graded"]_vars

\* A graded row has since failed a quiz and kept its status, next to a
\* second row.
C10_Witness ==
    /\ Cardinality(enrollments) = 2
    /\ \E e \in enrollments : e.status = "Graded" /\ e.ai_score = 0
    /\ \E e \in enrollments : e.status = "Enrolled"

\* C2: each question object of a generate_quiz response carries only the
\* keys 'question' and 'options', whichever tier the questions came from,
\* and 'correct' is no key of the payload.
C2_QuizResponseHidesAnswers ==
    resp.op = "generate_quiz" =>
        /\ "correct" \notin resp.keys
        /\ \A k \in DOMAIN resp.questions :
              resp.questions[k].has = {"question", "options"}

\* A quiz served from the shared cache whose stored questions carry the
\* 'correct' index.
C2_Witness ==
    /\ resp.op = "generate_quiz"
    /\ resp.source = "cache"
    /\ resp.questions # <<>>
    /\ \E i \in internships :
          /\ i.interview_questions.items # <<>>
          /\ \A k \in DOMAIN i.interview_questions.items :
                "correct" \in i.interview_questions.items[k].has

AiEndpoints ==
    {"generate_career_plan", "generate_internships", "generate_quiz",
     "scrape_jobs", "local_discounts_and_events", "travel_planner"}

\* C7: when the try block of generate_career_plan or grade_internship
\* raises (the generation call fails, or the plan text does not parse), the
\* response is an {error: ...} payload with a non-2xx status, with no plan
\* and no score in it.
C7_NoSilentFallback ==
    (resp.op \in {"generate_career_plan", "grade_internship"} /\ resp.gen_failed)
        => /\ resp.keys = {"error"}
           /\ resp.status \notin 200..299
           /\ resp.content = NoneValue
           /\ resp.score = NoScore

\* A career plan whose text did not parse: the row was written, and the
\* response is the error.
C7_Witness ==
    /\ resp.op = "generate_career_plan"
    /\ resp.gen_failed
    /\ \E p \in careerPlans : json_loads(p.plan_details).t = "error"

\* C8: the content of a success response of an AI-backed endpoint is a
\* parsed JSON array of objects or a hand-authored default, and never text
\* of the generation response that was not parsed.
C8_ContentIsParsed ==
    (resp.op \in AiEndpoints /\ resp.status = HttpOk)
        => /\ resp.text # <<>> => resp.source = "default"
           /\ resp.content.t \in {"list", "none"}
           /\ \A k \in DOMAIN resp.content.items :
                 resp.content.items[k].kind = "obj"

\* C3: a call of scrape_jobs whose cache key holds an entry that has not
\* expired is answered from the cache: it never goes on to the generation
\* call.
C3_PopulatedKeySkipsGeneration ==
    [][\A u \in Users :
          (jobsReq[u].pc = "idle" /\ jobsReq'[u].pc = "generate")
          => ~ \E c \in cache :
                 /\ c.key = jobs_cache_key(jobsReq'[u].query,
                                           jobsReq'[u].location)
                 /\ now < c.expires]_vars

\* C4: a request of local_discounts_and_events with refresh=true never
\* looks a stored row up, and once it is at the generation call or past it,
\* it has read no stored row and none of the rows that matched its city and
\* country when it began is left.
C4_RefreshDeletesBeforeGeneration ==
    \A u \in Users :
        vibesReq[u].refresh =>
            /\ vibesReq[u].pc # "lookup"
            /\ vibesReq[u].pc \in {"generate", "save", "fallback"} =>
                 /\ ~ vibesReq[u].read
                 /\ ~ \E v \in localVibes : v.id \in vibesReq[u].start_ids

\* A refresh that began with a stored row stands at the generation call.
C4_Witness ==
    \E u \in Users :
        /\ vibesReq[u].refresh
        /\ vibesReq[u].pc = "generate"
        /\ vibesReq[u].start_ids # {}

\* C5: when a request with refresh=true ends in the except clause, it
\* answers with the offers of the row that was stored when it began, if
\* that row had any, and so with the hand-authored default only when there
\* was no such row.
C5_RefreshFailureServesStale ==
    [][\A u \in Users :
          (/\ vibesReq[u].pc = "fallback"
           /\ vibesReq[u].refresh
           /\ vibesReq'[u].pc = "idle"
           /\ Truthy(vibesReq[u].start_offers))
          => /\ resp'.content = vibesReq[u].start_offers
             /\ resp'.content # DefaultVibes]_vars

\* C6: a failed generation or parse is answered with a success status: by
\* scrape_jobs with an empty list of jobs, and by
\* local_discounts_and_events, when no stored row has offers, with the
\* three hand-authored events.
C6_FailuresFailOpen ==
    [][/\ \A u \in Users :
            (/\ jobsReq[u].pc = "generate"
             /\ jobsReq'[u].pc = "idle"
             /\ resp'.gen_failed)
            => /\ resp'.status = HttpOk
               /\ "status" \in resp'.keys
               /\ resp'.content = ListValue(<<>>)
       /\ \A u \in Users :
            (vibesReq[u].pc = "fallback" /\ vibesReq'[u].pc = "idle")
            => /\ resp'.status = HttpOk
               /\ ~ UsableVibe(VibeMatches(u))
                    => /\ resp'.content = DefaultVibes
                       /\ Len(resp'.content.items) = 3]_vars

\* A failed generation of local recommendations has been answered by the
\* default, no stored row having offers.
C6_Witness ==
    /\ resp.op = "local_discounts_and_events"
    /\ resp.gen_failed
    /\ resp.source = "default"
    /\ resp.status = HttpOk
    /\ \A v \in localVibes : ~ Truthy(v.offers)

\* C11: submit_quiz on a stored list of N > 0 question objects, of which k
\* answers of the sheet equal the stored 'correct' index (an answer the sheet
\* lacks is wrong), answers with the score round(100 * k / N), ties going to
\* the even integer, and with passed exactly when the score is 60 or more.
C11_ScoreIsRoundedShare ==
    [][\A u \in OneUser, id \in InternshipIds, a \in AnswerSheets :
          (/\ InternshipExists(id)
           /\ AllObjects(InternshipById(id).interview_questions)
           /\ Len(InternshipById(id).interview_questions.items) > 0
           /\ SubmitQuiz(u, id, a))
          => LET qs == InternshipById(id).interview_questions.items
                 N == Len(qs)
                 k == Cardinality(
                        {i \in 1..N :
                            /\ i <= Len(a)
                            /\ a[i] = IF "correct" \in qs[i].has
                                      THEN qs[i].val.correct ELSE 0})
                 off == IF 100 * k >= resp'.score * N
                        THEN 100 * k - resp'.score * N
                        ELSE resp'.score * N - 100 * k
             IN  /\ resp'.op = "submit_quiz"
                 /\ resp'.status = HttpOk
                 /\ \/ 2 * off < N
                    \/ 2 * off = N /\ resp'.score % 2 = 0
                 /\ resp'.passed <=> resp'.score >= 60
                 /\ (N = 10 /\ k = 6) => (resp'.score = 60 /\ resp'.passed)
                 /\ (N = 10 /\ k = 5) => ~ resp'.passed]_vars

\* Six right answers out of ten have been scored 60 and passed.
C11_Witness ==
    /\ resp.op = "submit_quiz"
    /\ resp.score = 60
    /\ resp.passed
    /\ \E i \in internships : Len(i.interview_questions.items) = 10

\* C12: a step of scrape_jobs changes the ScrapedJob rows of one user at
\* most; none of that user's earlier rows is left after it, and the rows the
\* user then has are the ones created, one per job of the response, with
\* that job's title.  A call that ends after its generation step leaves the
\* user exactly the rows of its response: none when the payload was empty
\* or the generation failed.
C12_JobsReplacedPerUser ==
    [][\A u \in Users :
          LET before == {j \in scrapedJobs : j.user = u}
              after == {j \in scrapedJobs' : j.user = u}
              jobs == resp'.content.items
              created ==
                 /\ resp'.op = "scrape_jobs"
                 /\ {j.id : j \in after} =
                       nextJobId..(nextJobId + Len(jobs) - 1)
                 /\ \A j \in after :
                       "title" \in jobs[j.id - nextJobId + 1].has
                          => j.title = jobs[j.id - nextJobId + 1].val.title
          IN  /\ after # before =>
                   /\ after \cap before = {}
                   /\ created
                   /\ \A v \in Users \ {u} :
                         {j \in scrapedJobs' : j.user = v} =
                         {j \in scrapedJobs : j.user = v}
              /\ (jobsReq[u].pc = "generate" /\ jobsReq'[u].pc = "idle")
                   => created]_vars

\* A user who had a job row has searched again and the generation failed:
\* the user has no row left, and the other user's rows stand.
C12_Witness ==
    /\ resp.op = "scrape_jobs"
    /\ resp.gen_failed
    /\ nextJobId > 2
    /\ \E u \in Users :
          /\ ~ \E j \in scrapedJobs : j.user = u
          /\ \E j \in scrapedJobs : j.user # u

\* C13: when a request of local_discounts_and_events without refresh looks
\* the table up and a row of the caller's city and country has offers, the
\* request ends there: it answers with the offers of such a row, makes no
\* generation call and leaves the table as it was.
C13_StoredOffersAreServed ==
    [][\A u \in Users :
          (/\ vibesReq[u].pc = "lookup"
           /\ vibesReq'[u].pc # "lookup"
           /\ ~ vibesReq[u].refresh
           /\ \E v \in VibeMatches(u) : Truthy(v.offers))
          => /\ vibesReq'[u].pc = "idle"
             /\ resp'.op = "local_discounts_and_events"
             /\ resp'.gen_calls = 0
             /\ \E v \in VibeMatches(u) :
                   Truthy(v.offers) /\ resp'.content = v.offers
             /\ localVibes' = localVibes]_vars

\* C14: generate_career_plan with an empty extra_info, by a user who has a
\* stored plan, answers with that user's latest plan, parsed, and its id,
\* marked cached; it makes no generation call and creates no row.
C14_LatestPlanIsServed ==
    [][\A u \in OneUser, x \in ExtraInfos, o \in PlanOutcomes :
          (/\ strip(x) = <<>>
           /\ PlansOf(u) # {}
           /\ GenerateCareerPlan(u, x, o))
          => /\ resp'.status = HttpOk
             /\ "cached" \in resp'.keys
             /\ resp'.plan_id = LatestPlan(u).id
             /\ resp'.content = json_loads(LatestPlan(u).plan_details)
             /\ resp'.gen_calls = 0
             /\ careerPlans' = careerPlans]_vars

\* C15 as the specification states it: a scrape_jobs call with empty
\* parameters by a user whose occupation is Backend Engineer uses the key
\* made of 'backend_engineer' and an empty location segment.
C15_KeyFromOccupationAlone ==
    [][\A u \in JobUsers :
          (/\ Occupation(u) = BackendEngineer
           /\ JobsLookup(u, <<>>, <<>>)
           /\ jobsReq'[u].pc = "generate")
          => jobs_cache_key(jobsReq'[u].query, jobsReq'[u].location) =
               <<"jobs_v2_", "b", "a", "c", "k", "e", "n", "d", "_",
                 "e", "n", "g", "i", "n", "e", "e", "r", "_">>]_vars

\* C15, amended: such a call uses a key whose query segment is
\* 'backend_engineer'; its location segment is empty when the profile has
\* neither city nor country, and is not empty when the profile has a city:
\* for the city 'Ny' it is 'ny'.  A call that has generated its jobs leaves
\* the cache an entry under that key.
C15_KeyFromProfile ==
    [][\A u \in JobUsers :
          LET key == jobs_cache_key(jobsReq'[u].query, jobsReq'[u].location)
              head == <<"jobs_v2_", "b", "a", "c", "k", "e", "n", "d", "_",
                        "e", "n", "g", "i", "n", "e", "e", "r", "_">>
              expected ==
                 IF UserCity(u) = <<>> /\ UserCountry(u) = <<>> THEN head
                 ELSE IF UserCity(u) = <<"N", "y">>
                 THEN head \o <<"n", "y">>
                 ELSE key
          IN  /\ (/\ Occupation(u) = BackendEngineer
                  /\ JobsLookup(u, <<>>, <<>>)
                  /\ jobsReq'[u].pc = "generate")
                 => /\ key = expected
                    /\ UserCity(u) # <<>> => Len(key) > Len(head)
              /\ (/\ jobsReq[u].pc = "generate"
                  /\ jobsReq'[u].pc = "idle"
                  /\ ~ resp'.gen_failed)
                 => \E c \in cache' :
                       c.key = jobs_cache_key(jobsReq[u].query,
                                              jobsReq[u].location)]_vars

\* The caller whose profile holds the occupation alone has searched with
\* empty parameters, and the cache holds the jobs under the key that ends
\* with the empty location segment.
C15_Witness ==
    /\ resp.op = "scrape_jobs"
    /\ resp.source = "ai"
    /\ \E c \in cache :
          c.key = <<"jobs_v2_", "b", "a", "c", "k", "e", "n", "d", "_",
                    "e", "n", "g", "i", "n", "e", "e", "r", "_">>

LiveJobsQA ==
    \E c \in cache :
        /\ c.key = <<"jobs_v2_", "q", "_", "a", "_", "x">>
        /\ now < c.expires
        /\ Truthy(c.value)

\* C16 as the specification states it: job searches whose queries differ
\* only in case or in the amount of spacing between or around the words
\* share one cache entry: once the entry of one of them is there, a search
\* with any of them is answered from it.
C16_KeysCollapseSpacing ==
    [][\A u \in {"u1", "u3"}, q \in FoldedQueries \cup {SpacedQuery} :
          (LiveJobsQA /\ JobsLookup(u, q, KeyLocation))
          => /\ jobsReq'[u].pc = "idle"
             /\ resp'.source = "cache"
             /\ resp'.gen_calls = 0]_vars

\* C16, amended: job searches whose queries differ only in case or in the
\* spaces around the words use one key and share its entry, and quiz titles
\* that differ only in case use one key.
C16_KeysFoldCase ==
    [][/\ \A u \in {"u1", "u3"}, q \in FoldedQueries :
            /\ (LiveJobsQA /\ JobsLookup(u, q, KeyLocation))
                 => /\ jobsReq'[u].pc = "idle"
                    /\ resp'.source = "cache"
                    /\ resp'.gen_calls = 0
            /\ (JobsLookup(u, q, KeyLocation) /\ jobsReq'[u].pc = "generate")
                 => jobs_cache_key(jobsReq'[u].query, jobsReq'[u].location)
                      = <<"jobs_v2_", "q", "_", "a", "_", "x">>
       /\ \A id \in InternshipIds, o \in QuizOutcomes :
            (/\ InternshipExists(id)
             /\ InternshipById(id).title \in {<<"A", "b">>, <<"a", "B">>}
             /\ GenerateQuiz("u1", id, o)
             /\ resp'.source = "ai")
            => \E c \in cache' : c.key = <<"quiz_shared_", "a", "b">>]_vars

\* Two callers have searched for 'Q a' and for 'q A': one row was created
\* for each, the second from the cache, whose one jobs entry is under the
\* key of 'q_a'.
C16_Witness ==
    /\ resp.op = "scrape_jobs"
    /\ resp.source = "cache"
    /\ LiveJobsQA
    /\ nextJobId = 3
    /\ \E j \in scrapedJobs :
          j.title = <<"q", " ", "A">> \o ProfessionalSuffix
    /\ \E j \in scrapedJobs :
          j.title = <<"Q", " ", "a">> \o ProfessionalSuffix

\* C17: of a generation response that wraps its payload in ```json fences,
\* each endpoint parses the content between the opening fence and the next
\* closing fence, whatever stands outside the fences: the internship of the
\* fenced object is created, and the jobs and the career plan returned are
\* the fenced array.
C17_FencedPayloadIsExtracted ==
    [][\A t \in {TextFenced, TextFencedNotes} :
          LET o == [ok |-> TRUE, text |-> t]
              item == IF t = TextFenced THEN ObjectB ELSE ObjectA
          IN  /\ (client_ready /\ GenerateInternships("u1", o))
                   => /\ resp'.status = HttpOk
                      /\ \E i \in internships' :
                            /\ i.id = nextInternId
                            /\ i.title = Get(item, "title", TitleDefault)
              /\ (client_ready /\ JobsGenerate("u3", o))
                   => /\ ~ resp'.gen_failed
                      /\ resp'.content = ListValue(<<item>>)
              /\ (client_ready /\ GenerateCareerPlan("u1", <<"x">>, o))
                   => /\ resp'.status = HttpOk
                      /\ resp'.content = ListValue(<<item>>)]_vars

\* C18: of a generation response that holds a bracketed array in unfenced
\* text, with commentary before and after it, each endpoint parses the span
\* from the first '[' to the last ']': the internship of the object in it is
\* created, and the jobs and the career plan returned are that array.
C18_BracketSpanIsParsed ==
    [][LET o == [ok |-> TRUE, text |-> TextProse]
       IN  /\ (client_ready /\ GenerateInternships("u1", o))
                => /\ resp'.status = HttpOk
                   /\ \E i \in internships' :
                         i.id = nextInternId /\ i.title = TitleAb
           /\ (client_ready /\ JobsGenerate("u3", o))
                => /\ ~ resp'.gen_failed
                   /\ resp'.content = ListValue(<<ObjectA>>)
           /\ (client_ready /\ GenerateCareerPlan("u1", <<"x">>, o))
                => /\ resp'.status = HttpOk
                   /\ resp'.content = ListValue(<<ObjectA>>)]_vars

\* C19: a request that calls the generation service while the caller's
\* Accept-Language is 'tr' sends a prompt that ends with the instruction to
\* answer in Turkish; for any other locale the prompt has no such suffix.
C19_PromptCarriesLocale ==
    [][(/\ accept_language' = accept_language
        /\ resp'.op \in AiEndpoints
        /\ resp'.gen_calls > 0)
       => /\ resp'.prompt_suffix = get_lang_instruction(accept_language)
          /\ accept_language = "tr"
               => resp'.prompt_suffix = TurkishInstruction]_vars

\* C20: nothing holds back a request that has missed the cache: its next
\* step is a generation call, whatever other requests for the same key have
\* done since, and when the call's text parses, the request writes the key,
\* so that the entry holds the payload of the request that wrote last.
C20_LastWriteWins ==
    [][/\ \A u \in Users :
            (jobsReq[u].pc = "generate" /\ jobsReq'[u].pc = "idle")
            => /\ resp'.gen_calls = 1
               /\ ~ resp'.gen_failed
                    => \E c \in cache' :
                          /\ c.key = jobs_cache_key(jobsReq[u].query,
                                                    jobsReq[u].location)
                          /\ c.value = resp'.content
                          /\ c.expires = now + CacheTimeout
       /\ \A u \in Users :
            (quizReq[u].pc = "generate" /\ quizReq'[u].pc = "idle")
            => /\ resp'.gen_calls = 1
               /\ ~ resp'.gen_failed
                    => \E c \in cache' :
                          /\ c.key = quiz_cache_key(quizReq[u].internship.title)
                          /\ Len(c.value.items) = Len(resp'.questions)
                          /\ c.expires = now + CacheTimeout]_vars

\* Two job searches and two quiz requests for one key have each missed, and
\* one of each has written the key since: the other is still on its way to
\* the generation call.
C20_Witness ==
    /\ \E u \in Users :
          /\ jobsReq[u].pc = "generate"
          /\ \E c \in cache :
                /\ c.key = jobs_cache_key(jobsReq[u].query, jobsReq[u].location)
                /\ Truthy(c.value)
    /\ \E u \in Users :
          /\ quizReq[u].pc = "generate"
          /\ \E c \in cache :
                /\ c.key = quiz_cache_key(quizReq[u].internship.title)
                /\ Truthy(c.value)

C23_ErrorLeavesInternships ==
    [][\A u \in Users, o \in RegenOutcomes :
          (resp'.status = HttpServerError /\ GenerateInternships(u, o))
          => {i \in internships' : i.user = u}
               = {i \in internships : i.user = u}]_vars

\* C24: a generate_career_plan call that answers with an error stores no
\* CareerPlan row, so the plan_details of every stored row is text that
\* parses as JSON.
C24_StoredPlansParse ==
    [][/\ resp'.op = "generate_career_plan" /\ resp'.status = HttpServerError
            => careerPlans' = careerPlans
       /\ \A p \in careerPlans' : json_loads(p.plan_details).t # "error"]_vars

\* A question set has been returned for the internship: what the row holds
\* is a non-empty list of objects (internships start with strings).
QuizShown(id) ==
    /\ InternshipExists(id)
    /\ Truthy(InternshipById(id).interview_questions)
    /\ AllObjects(InternshipById(id).interview_questions)

\* C25: once generate_quiz has returned a question set for an internship,
\* every later generate_quiz call for it returns the same questions, makes
\* no generation call and leaves the stored interview_questions unchanged.
C25_ShownQuizIsKept ==
    [][\A u \in OneUser, id \in InternshipIds, o \in ExamOutcomes :
          (QuizShown(id) /\ GenerateQuiz(u, id, o))
          => /\ resp'.gen_calls = 0
             /\ internships' = internships
             /\ resp'.questions =
                  QuizResponse(InternshipById(id).interview_questions,
                               "db", 0).questions]_vars

\* What the generation calls of the feeds can be parsed to.
ParsedFeeds ==
    {parse_fenced_array(o.text) : o \in {x \in FeedOutcomes : x.ok}}
        \ {ParseError}

\* C26: fallback content is never stored. A scrape_jobs request whose
\* generation call or parsing fails writes nothing to the shared cache, a
\* local_discounts_and_events request whose call or parsing fails writes no
\* LocalVibe row, and every value written to the cache or to
\* LocalVibe.offers is the parsed text of a generation call that returned.
C26_FallbackIsNeverStored ==
    [][/\ \A o \in FeedOutcomes :
            LET r == ai_generate(o)
                failed == ~ r.ok \/ parse_fenced_array(r.text).t = "error"
            IN  /\ (failed /\ JobsGenerate("u1", o)) => cache' = cache
                /\ (failed /\ VibesGenerate("u1", o))
                     => /\ localVibes' = localVibes
                        /\ vibesReq'["u1"].events.t = "error"
       /\ vibesReq["u1"].events.t = "error" => localVibes' = localVibes
       /\ \A c \in cache' \ cache : c.value \in ParsedFeeds
       /\ \A v \in localVibes' \ localVibes :
            client_ready /\ v.offers \in ParsedFeeds]_vars

\* A job search has answered with its fallback and a recommendations
\* request is in its except clause: the cache and the LocalVibe table are
\* empty.
C26_Witness ==
    /\ resp.op = "scrape_jobs"
    /\ resp.source = "default"
    /\ resp.gen_failed
    /\ cache = {}
    /\ localVibes = {}
    /\ vibesReq["u1"].pc = "fallback"
    /\ vibesReq["u1"].events.t = "error"

\* C27: two job searches whose (query, location) pairs differ after
\* lowercasing and space-to-underscore normalization have different cache
\* keys, and a search is never served the entry another one wrote.
C27_DistinctSearchesDistinctKeys ==
    \A u, v \in {"u1", "u3"} :
        /\ jobsReq[u].pc = "generate"
        /\ jobsReq[v].pc = "generate"
        /\ <<lower(replace_space(jobsReq[u].query)),
              lower(replace_space(jobsReq[u].location))>>
             # <<lower(replace_space(jobsReq[v].query)),
                 lower(replace_space(jobsReq[v].location))>>
        => jobs_cache_key(jobsReq[u].query, jobsReq[u].location)
             # jobs_cache_key(jobsReq[v].query, jobsReq[v].location)

\* C28: whatever local_discounts_and_events calls users make whose city
\* and country differ in letter case only, at most one LocalVibe row
\* matches a city and country under the case-insensitive comparison of the
\* endpoint's lookup and deletion.
C28_OneRowPerPlace ==
    \A v, w \in localVibes :
        lower(v.city) = lower(w.city) /\ lower(v.country) = lower(w.country)
        => v = w

\* C29: every Enrollment.ai_score that grade_internship or submit_quiz has
\* written is an integer from 0 to 100, whatever the generation's text and
\* whatever the answer sheet.
C29_ScoresInRange ==
    \A e \in enrollments : e.ai_score # NoScore => e.ai_score \in 0..100

\* C30: an Internship row is changed, and an Enrollment row deleted, only
\* by requests of the user who owns it: a generate_quiz or
\* generate_internships call by one user leaves the internships of the other
\* users as they were and deletes none of their enrollments.
C30_OnlyOwnersChangeRows ==
    [][\A u \in Users :
          /\ \A id \in InternshipIds, o \in QuizOutcomes :
                GenerateQuiz(u, id, o)
                => {i \in internships' : i.user # u}
                     = {i \in internships : i.user # u}
          /\ \A o \in InternOutcomes :
                GenerateInternships(u, o)
                => /\ {i \in internships' : i.user # u}
                        = {i \in internships : i.user # u}
                   /\ {e \in enrollments : e.user # u} \subseteq enrollments']_vars

====
